---------------------------- MODULE Spec2Model ----------------------------
(***************************************************************************)
(* GenieTalk (src/agent.py): a Streamlit page whose script is re-run on    *)
(* every widget event.  The state is the session state (messages,          *)
(* agent_runs), the sidebar widgets' values, and what the last run of the  *)
(* script did.  One action per widget event; each action is one complete   *)
(* run of the script (operator Script).                                    *)
(*                                                                         *)
(* A text is a sequence of characters; a character is a TLA+ string (a     *)
(* word counts as one character).  " " and "\n" are the whitespace.        *)
(***************************************************************************)
EXTENDS Naturals, Sequences, FiniteSets

VARIABLES
    messages,        \* st.session_state.messages: sequence of [user, assistant]
    agent_runs,      \* st.session_state.agent_runs: sequence of [agentic_explanation]
    api_key,         \* sidebar text input
    main_mode,       \* sidebar radio
    role,            \* sidebar selectbox
    uploaded_files,  \* sidebar file uploader (list of files)
    pypdf2,          \* whether `from PyPDF2 import PdfReader` succeeds here
    agentic_turns,   \* history variable: Turns appended by the agentic branch since the last clear
    run              \* what the last run of the script did

vars == <<messages, agent_runs, api_key, main_mode, role, uploaded_files,
          pypdf2, agentic_turns, run>>

-----------------------------------------------------------------------------
(* Bounds of the model *)

MaxTurns == 2        \* Spec: submissions stop once the store holds this many Turns
MaxHistory == 8      \* SpecAgentic: the same; a goal is submitted with up to 7 prior Turns

(* Program constants *)

HistoryWindow == 6   \* chat_history[-6:]
DocQaBudget == 25000 \* doc_text[:25000]
ResumeBudget == 20000
AgenticDocBudget == 8000

-----------------------------------------------------------------------------
(* Python's str and list operations, as the code uses them *)

Whitespace == {" ", "\n"}

Min(S) == CHOOSE x \in S : \A y \in S : x <= y
Max(S) == CHOOSE x \in S : \A y \in S : x >= y

\* str.strip(): drop leading and trailing whitespace
Strip(s) ==
    LET keep == {i \in 1..Len(s) : s[i] \notin Whitespace}
    IN  IF keep = {} THEN <<>> ELSE SubSeq(s, Min(keep), Max(keep))

\* `if s:` / `if not s:` on a str or a list
Truthy(s) == s # <<>>

\* s[:n]
Prefix(s, n) == SubSeq(s, 1, IF Len(s) < n THEN Len(s) ELSE n)

\* s[-n:]
Suffix(s, n) == SubSeq(s, (IF Len(s) < n THEN 0 ELSE Len(s) - n) + 1, Len(s))

RECURSIVE Join(_, _)
\* sep.join(parts)
Join(sep, parts) ==
    IF parts = <<>> THEN <<>>
    ELSE IF Len(parts) = 1 THEN parts[1]
    ELSE parts[1] \o sep \o Join(sep, Tail(parts))

\* str.lower() on the characters file names are made of here
Lower(c) ==
    CASE c = ".TXT" -> ".txt"
      [] c = ".PDF" -> ".pdf"
      [] c = ".PNG" -> ".png"
      [] OTHER -> c

\* name.lower().endswith(suffix), the suffix being one character of the name
LowerEndsWith(name, suffix) ==
    /\ name # <<>>
    /\ Lower(name[Len(name)]) = suffix

\* the value of a call: what it returned, or that it raised
Returned(v) == [raised |-> FALSE, value |-> v]
Raised == [raised |-> TRUE, value |-> <<>>]

-----------------------------------------------------------------------------
(* Uploaded files.  A file is [name, bytes, pdf]: name is the file name's  *)
(* characters, the last one its suffix; bytes is the content of a text    *)
(* file, "0xFF" standing for a byte that is not valid UTF-8; pdf says what *)
(* PyPDF2 makes of the content: whether PdfReader(file) reads it, and its  *)
(* pages, each [extract, text]: extract_text() returns the text ("text"),  *)
(* returns None ("none") or raises ("raise").                              *)

Page(text) == [extract |-> "text", text |-> text]
PageNone == [extract |-> "none", text |-> <<>>]
PageRaises == [extract |-> "raise", text |-> <<>>]

TxtFile(name, bytes) ==
    [name |-> name, bytes |-> bytes, pdf |-> [readable |-> FALSE, pages |-> <<>>]]
PdfFile(name, pages) ==
    [name |-> name, bytes |-> <<>>, pdf |-> [readable |-> TRUE, pages |-> pages]]
CorruptPdf(name) ==
    [name |-> name, bytes |-> <<>>, pdf |-> [readable |-> FALSE, pages |-> <<>>]]

EmptyTxt == TxtFile(<<"empty", ".txt">>, <<>>)
NotesTxt == TxtFile(<<"notes", ".TXT">>, <<"n", "0xFF", "o">>)
CvPdf == PdfFile(<<"cv", ".pdf">>, <<Page(<<"c", "v">>), PageNone, Page(<<"p">>)>>)
BadPdf == CorruptPdf(<<"bad", ".pdf">>)
BadPagePdf == PdfFile(<<"scan", ".PDF">>, <<Page(<<"s">>), PageRaises>>)

\* file.read().decode("utf-8", errors="ignore")
read_txt_file(file) ==
    LET valid(b) == b # "0xFF" IN SelectSeq(file.bytes, valid)

PyPDF2Missing ==
    <<"PyPDF2 is not installed. Please install it with pip install PyPDF2.">>

\* page.extract_text() or ""
PageText(page) == IF page.extract = "none" THEN <<>> ELSE page.text

read_pdf_file(installed, file) ==
    IF ~installed THEN Returned(PyPDF2Missing)
    ELSE IF ~file.pdf.readable THEN Raised
    ELSE LET pages == file.pdf.pages
         IN  IF \E i \in 1..Len(pages) : pages[i].extract = "raise" THEN Raised
             ELSE Returned(Join(<<"\n">>,
                                [i \in 1..Len(pages) |-> PageText(pages[i])]))

Unsupported(name) == <<"Unsupported file type: ">> \o name

\* what one file contributes to full_text
FileText(installed, f) ==
    IF LowerEndsWith(f.name, ".txt") THEN Returned(read_txt_file(f))
    ELSE IF LowerEndsWith(f.name, ".pdf") THEN read_pdf_file(installed, f)
    ELSE Returned(Unsupported(f.name))

get_uploaded_text(installed, files) ==
    IF ~Truthy(files) THEN Returned(<<>>)
    ELSE LET parts == [i \in 1..Len(files) |-> FileText(installed, files[i])]
         IN  IF \E i \in 1..Len(files) : parts[i].raised THEN Raised
             ELSE Returned(Join(<<"\n", "\n">>,
                                [i \in 1..Len(files) |-> parts[i].value]))

-----------------------------------------------------------------------------
(* The model gateway.  What the hosted model does with a payload is not    *)
(* the program's: gw is the outcome of the one call a run can make, either *)
(* a failure (generate_content or response.text raises) or the raw text.   *)

GatewayFails == [ok |-> FALSE, text |-> <<>>]
GatewayReturns(text) == [ok |-> TRUE, text |-> text]

\* response = model.generate_content(payload); response.text
generate_content(gw, payload) == IF gw.ok THEN Returned(gw.text) ELSE Raised

\* a tool's outcome: raised or the returned value, and the gateway calls it made
ToolResult(raised, value, calls, payload) ==
    [raised |-> raised, value |-> value, gateway_calls |-> calls, payload |-> payload]

\* response = model.generate_content(payload); return response.text.strip()
CallAndStrip(gw, payload) ==
    LET response == generate_content(gw, payload)
    IN  ToolResult(response.raised, Strip(response.value), 1, payload)

-----------------------------------------------------------------------------
(* The assemblers / tools.  A payload keeps the template's name and the    *)
(* values interpolated into it.                                            *)

NoDocumentText ==
    <<"(I could not find any document text. Please upload a PDF or TXT first.)">>
NoResumeText ==
    <<"Please upload your resume as PDF/TXT or paste it so I can review it.">>

\* for msg in history: a user entry, then a model entry
HistoryContents(history) ==
    [i \in 1..(2 * Len(history)) |->
        IF i % 2 = 1
        THEN [role |-> "user", parts |-> history[(i + 1) \div 2].user]
        ELSE [role |-> "model", parts |-> history[i \div 2].assistant]]

tool_general_chat(gw, user_input, language, role_, history) ==
    LET system_prompt == <<"You are GenieTalk", role_, language>>
        contents == <<[role |-> "user", parts |-> system_prompt]>>
                    \o HistoryContents(history)
                    \o <<[role |-> "user", parts |-> user_input]>>
    IN  CallAndStrip(gw, [template |-> "general_chat", contents |-> contents])

\* mutant: `if not doc_text:` in place of `if not doc_text.strip():`
tool_document_qa_no_strip(gw, question, doc_text, language) ==
    IF ~Truthy(doc_text)
    THEN ToolResult(FALSE, NoDocumentText, 0, [template |-> "none"])
    ELSE CallAndStrip(gw, [template |-> "document_qa", language |-> language,
                           question |-> question,
                           doc_text |-> Prefix(doc_text, DocQaBudget)])

tool_document_qa(gw, question, doc_text, language) ==
    IF ~Truthy(Strip(doc_text))
    THEN ToolResult(FALSE, NoDocumentText, 0, [template |-> "none"])
    ELSE CallAndStrip(gw, [template |-> "document_qa", language |-> language,
                           question |-> question,
                           doc_text |-> Prefix(doc_text, DocQaBudget)])

tool_translate(gw, text, target_language) ==
    CallAndStrip(gw, [template |-> "translate", language |-> target_language,
                      text |-> text])

tool_resume_review(gw, resume_text, language) ==
    IF ~Truthy(Strip(resume_text))
    THEN ToolResult(FALSE, NoResumeText, 0, [template |-> "none"])
    ELSE CallAndStrip(gw, [template |-> "resume_review", language |-> language,
                           resume_text |-> Prefix(resume_text, ResumeBudget)])

tool_coding_help(gw, question, language) ==
    CallAndStrip(gw, [template |-> "coding_help", language |-> language,
                      question |-> question])

tool_emotional_support(gw, message, language) ==
    CallAndStrip(gw, [template |-> "emotional_support", language |-> language,
                      message |-> message])

RECURSIVE HistoryLines(_)
\* history_text += f"User: {turn['user']}\nAssistant: {turn['assistant']}\n"
HistoryLines(turns) ==
    IF turns = <<>> THEN <<>>
    ELSE <<"User: ">> \o turns[1].user \o <<"\n">>
         \o <<"Assistant: ">> \o turns[1].assistant \o <<"\n">>
         \o HistoryLines(Tail(turns))

\* mutant: chat_history[:6] in place of chat_history[-6:]
history_text_first_six(chat_history) ==
    IF ~Truthy(chat_history) THEN <<>>
    ELSE <<"\n", "Previous conversation:", "\n">>
         \o HistoryLines(Prefix(chat_history, HistoryWindow))

\* the history_text of agentic_plan_and_execute
history_text(chat_history) ==
    IF ~Truthy(chat_history) THEN <<>>
    ELSE <<"\n", "Previous conversation:", "\n">>
         \o HistoryLines(Suffix(chat_history, HistoryWindow))

\* the doc_hint of agentic_plan_and_execute
doc_hint(doc_text) ==
    IF Truthy(Strip(doc_text))
    THEN <<"The user also provided document text.">>
         \o Prefix(doc_text, AgenticDocBudget)
    ELSE <<>>

\* returns {"agentic_explanation": text}
agentic_plan_and_execute(gw, goal, role_, language, doc_text, chat_history) ==
    LET prompt == [template |-> "agentic", goal |-> goal, role |-> role_,
                   language |-> language,
                   history_text |-> history_text(chat_history),
                   doc_hint |-> doc_hint(doc_text)]
        r == CallAndStrip(gw, prompt)
    IN  ToolResult(r.raised, [agentic_explanation |-> r.value], 1, prompt)

-----------------------------------------------------------------------------
(* One run of the script.  st is the session state [messages, agent_runs], *)
(* w the widgets' values [api_key, main_mode, role, uploaded_files,        *)
(* pypdf2], ev the event of this run [user_input, clear, export, gw,       *)
(* language]: user_input is <<>> when st.chat_input returned None.         *)

NoRun ==
    [status |-> "done",         \* "done", "stopped" (st.stop) or "exception"
     failed_at |-> "none",      \* where the exception was raised: "extraction", "gateway"
     warning |-> FALSE,         \* st.warning was shown
     cleared |-> FALSE,         \* the Clear Chat handler ran
     exported |-> FALSE,        \* the export handler ran
     export_str |-> <<>>,
     user_input |-> <<>>,       \* what st.chat_input returned, once the run got there
     turns_before |-> 0,        \* history variable: len(messages) when the run began
     branch |-> "none",         \* "chat" or "agentic": the branch that dispatched
     tools |-> <<>>,            \* the tool functions called, in order
     gateway_calls |-> 0,
     reply |-> <<>>,            \* what the tool returned
     history_text |-> <<>>]     \* the history section of the agentic prompt

Outcome(st, r) == [messages |-> st.messages, agent_runs |-> st.agent_runs, run |-> r]

\* mutant: the handler resets messages and forgets agent_runs
clear_chat_messages_only(st) == [messages |-> <<>>, agent_runs |-> st.agent_runs]

\* the Clear Chat handler
clear_chat(st) == [messages |-> <<>>, agent_runs |-> <<>>]

\* the export handler's export_str
export_chat(msgs) ==
    Join(<<"\n">>,
         [i \in 1..Len(msgs) |->
            <<"User: ">> \o msgs[i].user \o <<"\n">>
            \o <<"Assistant: ">> \o msgs[i].assistant \o <<"\n">>])

\* mutant: the chain without its Document QA arm
chat_route_no_document_arm(gw, role_, user_input, language, doc_text_context, msgs) ==
    IF role_ = "Coding Help"
    THEN [tool |-> "tool_coding_help",
          r |-> tool_coding_help(gw, user_input, language)]
    ELSE IF role_ = "Resume Review"
    THEN LET resume_text == IF Truthy(doc_text_context) THEN doc_text_context
                            ELSE user_input
         IN  [tool |-> "tool_resume_review",
              r |-> tool_resume_review(gw, resume_text, language)]
    ELSE IF role_ = "Emotional Support"
    THEN [tool |-> "tool_emotional_support",
          r |-> tool_emotional_support(gw, user_input, language)]
    ELSE IF role_ = "Translator"
    THEN [tool |-> "tool_translate",
          r |-> tool_translate(gw, user_input, language)]
    ELSE [tool |-> "tool_general_chat",
          r |-> tool_general_chat(gw, user_input, language, role_, msgs)]

\* the if/elif chain on role: the tool called and its outcome
chat_route(gw, role_, user_input, language, doc_text_context, msgs) ==
    IF role_ = "General Assistant"
    THEN [tool |-> "tool_general_chat",
          r |-> tool_general_chat(gw, user_input, language, role_, msgs)]
    ELSE IF role_ = "Coding Help"
    THEN [tool |-> "tool_coding_help",
          r |-> tool_coding_help(gw, user_input, language)]
    ELSE IF role_ = "Resume Review"
    THEN LET resume_text == IF Truthy(doc_text_context) THEN doc_text_context
                            ELSE user_input
         IN  [tool |-> "tool_resume_review",
              r |-> tool_resume_review(gw, resume_text, language)]
    ELSE IF role_ = "Emotional Support"
    THEN [tool |-> "tool_emotional_support",
          r |-> tool_emotional_support(gw, user_input, language)]
    ELSE IF role_ = "Document QA"
    THEN [tool |-> "tool_document_qa",
          r |-> tool_document_qa(gw, user_input, doc_text_context, language)]
    ELSE IF role_ = "Translator"
    THEN [tool |-> "tool_translate",
          r |-> tool_translate(gw, user_input, language)]
    ELSE [tool |-> "tool_general_chat",
          r |-> tool_general_chat(gw, user_input, language, role_, msgs)]

\* mutant: messages.insert(0, ...) in place of messages.append(...)
append_turn_front(msgs, user_input, assistant) ==
    <<[user |-> user_input, assistant |-> assistant]>> \o msgs

\* st.session_state.messages.append({"user": ..., "assistant": ...})
append_turn(msgs, user_input, assistant) ==
    Append(msgs, [user |-> user_input, assistant |-> assistant])

\* mutant: the AgentRun is not stored
append_run_skipped(runs, agent_run) == runs

\* st.session_state.agent_runs.append(agent_run)
append_run(runs, agent_run) == Append(runs, agent_run)

\* mutant: a failed tool call is caught and its error text appended as the Turn
chat_branch_appends_on_error(st, w, ev, doc_text_context, r0) ==
    LET call == chat_route(ev.gw, w.role, ev.user_input, ev.language,
                           doc_text_context, st.messages)
        r1 == [r0 EXCEPT !.branch = "chat", !.tools = <<call.tool>>,
                         !.gateway_calls = call.r.gateway_calls]
        text == IF call.r.raised THEN <<"Error">> ELSE call.r.value
    IN  Outcome([st EXCEPT !.messages = append_turn(st.messages, ev.user_input, text)],
                [r1 EXCEPT !.reply = text,
                           !.status = IF call.r.raised THEN "exception" ELSE "done",
                           !.failed_at = IF call.r.raised THEN "gateway" ELSE "none"])

\* main_mode == "Chat": route, then append the Turn
chat_branch(st, w, ev, doc_text_context, r0) ==
    LET call == chat_route(ev.gw, w.role, ev.user_input, ev.language,
                           doc_text_context, st.messages)
        r1 == [r0 EXCEPT !.branch = "chat", !.tools = <<call.tool>>,
                         !.gateway_calls = call.r.gateway_calls]
    IN  IF call.r.raised
        THEN Outcome(st, [r1 EXCEPT !.status = "exception", !.failed_at = "gateway"])
        ELSE Outcome([st EXCEPT !.messages =
                          append_turn(st.messages, ev.user_input, call.r.value)],
                     [r1 EXCEPT !.reply = call.r.value])

\* mutant: the Turn and the AgentRun are appended before the call's failure surfaces
agentic_branch_appends_on_error(st, w, ev, doc_text_context, r0) ==
    LET agent_run == agentic_plan_and_execute(ev.gw, ev.user_input, w.role,
                         ev.language, doc_text_context, st.messages)
        agent_text == agent_run.value.agentic_explanation
        r1 == [r0 EXCEPT !.branch = "agentic",
                         !.tools = <<"agentic_plan_and_execute">>,
                         !.gateway_calls = agent_run.gateway_calls,
                         !.history_text = agent_run.payload.history_text,
                         !.reply = agent_text,
                         !.status = IF agent_run.raised THEN "exception" ELSE "done",
                         !.failed_at = IF agent_run.raised THEN "gateway" ELSE "none"]
    IN  Outcome([messages |-> append_turn(st.messages, ev.user_input, agent_text),
                 agent_runs |-> append_run(st.agent_runs, agent_run.value)],
                r1)

\* the else branch: agentic_plan_and_execute, then append the Turn and the AgentRun
agentic_branch(st, w, ev, doc_text_context, r0) ==
    LET agent_run == agentic_plan_and_execute(ev.gw, ev.user_input, w.role,
                         ev.language, doc_text_context, st.messages)
        r1 == [r0 EXCEPT !.branch = "agentic",
                         !.tools = <<"agentic_plan_and_execute">>,
                         !.gateway_calls = agent_run.gateway_calls,
                         !.history_text = agent_run.payload.history_text]
    IN  IF agent_run.raised
        THEN Outcome(st, [r1 EXCEPT !.status = "exception", !.failed_at = "gateway"])
        ELSE LET agent_text == agent_run.value.agentic_explanation
             IN  Outcome([messages |-> append_turn(st.messages, ev.user_input, agent_text),
                          agent_runs |-> append_run(st.agent_runs, agent_run.value)],
                         [r1 EXCEPT !.reply = agent_text])

\* mutant: `if not user_input and not api_key`
credential_missing_negated(w, ev) == ~Truthy(ev.user_input) /\ ~Truthy(w.api_key)

\* `if user_input and not api_key`: warn and stop
credential_missing(w, ev) == Truthy(ev.user_input) /\ ~Truthy(w.api_key)

\* the script, top to bottom
Script(st, w, ev) ==
    LET doc == IF Truthy(w.uploaded_files)
               THEN get_uploaded_text(w.pypdf2, w.uploaded_files)
               ELSE Returned(<<>>)
        r0 == [NoRun EXCEPT !.turns_before = Len(st.messages)]
    IN  IF doc.raised
        THEN Outcome(st, [r0 EXCEPT !.status = "exception", !.failed_at = "extraction"])
        ELSE
        LET st1 == IF ev.clear THEN clear_chat(st) ELSE st
            r1 == [r0 EXCEPT !.cleared = ev.clear, !.exported = ev.export,
                             !.user_input = ev.user_input,
                             !.export_str = IF ev.export THEN export_chat(st1.messages)
                                            ELSE <<>>]
        IN  IF credential_missing(w, ev)
            THEN Outcome(st1, [r1 EXCEPT !.status = "stopped", !.warning = TRUE])
            ELSE IF Truthy(ev.user_input) /\ Truthy(w.api_key)
            THEN IF w.main_mode = "Chat"
                 THEN chat_branch(st1, w, ev, doc.value, r1)
                 ELSE agentic_branch(st1, w, ev, doc.value, r1)
            ELSE Outcome(st1, r1)

-----------------------------------------------------------------------------
(* What the user can do *)

ApiKeys == {<<>>, <<"key">>}
Modes == {"Chat", "Agentic Task / Goal"}
Roles == {"General Assistant", "Coding Help", "Resume Review",
          "Emotional Support", "Document QA", "Translator"}
Languages == {"English", "Hindi"}
UserInputs == {<<"hello">>, <<"plan", " ", "trip">>}
Uploads == {<<>>, <<EmptyTxt, EmptyTxt>>, <<NotesTxt, CvPdf>>, <<BadPdf>>,
            <<BadPagePdf>>}
GatewayOutcomes == {GatewayFails, GatewayReturns(<<" ", "answer", "\n">>)}

Widgets ==
    [api_key |-> api_key, main_mode |-> main_mode, role |-> role,
     uploaded_files |-> uploaded_files, pypdf2 |-> pypdf2]

NoEvent ==
    [user_input |-> <<>>, clear |-> FALSE, export |-> FALSE,
     gw |-> GatewayFails, language |-> "English"]

\* the script runs with widgets w on event ev
Rerun(w, ev) ==
    LET out == Script([messages |-> messages, agent_runs |-> agent_runs], w, ev)
    IN  /\ messages' = out.messages
        /\ agent_runs' = out.agent_runs
        /\ run' = out.run
        /\ agentic_turns' =
              IF out.run.cleared THEN 0
              ELSE IF out.run.branch = "agentic"
              THEN agentic_turns + (Len(out.messages) - Len(messages))
              ELSE agentic_turns

Init ==
    /\ messages = <<>>
    /\ agent_runs = <<>>
    /\ api_key = <<>>
    /\ main_mode = "Chat"
    /\ role = "General Assistant"
    /\ uploaded_files = <<>>
    /\ pypdf2 \in BOOLEAN
    /\ agentic_turns = 0
    /\ run = NoRun

SetApiKey ==
    \E k \in ApiKeys \ {api_key} :
        /\ api_key' = k
        /\ UNCHANGED <<main_mode, role, uploaded_files, pypdf2>>
        /\ Rerun([Widgets EXCEPT !.api_key = k], NoEvent)

SetMode ==
    \E m \in Modes \ {main_mode} :
        /\ main_mode' = m
        /\ UNCHANGED <<api_key, role, uploaded_files, pypdf2>>
        /\ Rerun([Widgets EXCEPT !.main_mode = m], NoEvent)

SetRole ==
    \E r \in Roles \ {role} :
        /\ role' = r
        /\ UNCHANGED <<api_key, main_mode, uploaded_files, pypdf2>>
        /\ Rerun([Widgets EXCEPT !.role = r], NoEvent)

Upload ==
    \E fs \in Uploads \ {uploaded_files} :
        /\ uploaded_files' = fs
        /\ UNCHANGED <<api_key, main_mode, role, pypdf2>>
        /\ Rerun([Widgets EXCEPT !.uploaded_files = fs], NoEvent)

ClearChat ==
    /\ UNCHANGED <<api_key, main_mode, role, uploaded_files, pypdf2>>
    /\ Rerun(Widgets, [NoEvent EXCEPT !.clear = TRUE])

ExportChat ==
    /\ UNCHANGED <<api_key, main_mode, role, uploaded_files, pypdf2>>
    /\ Rerun(Widgets, [NoEvent EXCEPT !.export = TRUE])

Submit(user_input, gw, language) ==
    /\ UNCHANGED <<api_key, main_mode, role, uploaded_files, pypdf2>>
    /\ Rerun(Widgets, [NoEvent EXCEPT !.user_input = user_input, !.gw = gw,
                                      !.language = language])

SubmitInput ==
    /\ Len(messages) < MaxTurns
    /\ \E u \in UserInputs, gw \in GatewayOutcomes, l \in Languages : Submit(u, gw, l)

Next ==
    \/ SetApiKey
    \/ SetMode
    \/ SetRole
    \/ Upload
    \/ ClearChat
    \/ ExportChat
    \/ SubmitInput

Spec == Init /\ [][Next]_vars

\* sessions in which the user sets the key and the mode, submits and clears
SubmitGoal ==
    /\ Len(messages) < MaxHistory
    /\ \E u \in UserInputs, gw \in GatewayOutcomes, l \in Languages : Submit(u, gw, l)

NextAgentic ==
    \/ SetApiKey
    \/ SetMode
    \/ ClearChat
    \/ SubmitGoal

SpecAgentic == Init /\ [][NextAgentic]_vars

-----------------------------------------------------------------------------
(* Properties *)

\* empty or whitespace-only
IsBlank(text) == \A i \in 1..Len(text) : text[i] \in Whitespace

IsPrefixOf(s, t) == Len(s) <= Len(t) /\ SubSeq(t, 1, Len(s)) = s

Last(s) == s[Len(s)]

\* the step is a run of the script that read a user input
Submitted == Truthy(run'.user_input)

StoreUnchanged == messages' = messages /\ agent_runs' = agent_runs

\* the document context of the last run
DocContext == get_uploaded_text(pypdf2, uploaded_files).value

\* C1: a submission with a credential whose gateway call fails, in either mode
\* and for every role, appends no Turn and no AgentRun: both sequences are
\* what they were before the submission.
C1_FailedGatewayLeavesStore ==
    [][(Submitted /\ Truthy(api_key') /\ run'.failed_at = "gateway")
         => StoreUnchanged]_vars

C1_Witness ==
    /\ run.failed_at = "gateway"
    /\ run.branch = "agentic"
    /\ Truthy(run.user_input) /\ Truthy(api_key)
    /\ run.gateway_calls = 1
    /\ messages # <<>> /\ agent_runs # <<>>

\* C2: a non-empty input submitted while the credential is empty, for every
\* mode and role: the warning is shown, the run stops, no tool is called and no
\* gateway call is made, and messages and agent_runs are unchanged.
C2_MissingCredentialBlocks ==
    [][(Submitted /\ ~Truthy(api_key'))
         => /\ run'.warning
            /\ run'.status = "stopped"
            /\ run'.tools = <<>>
            /\ run'.gateway_calls = 0
            /\ StoreUnchanged]_vars

C2_Witness ==
    /\ Truthy(run.user_input) /\ ~Truthy(api_key)
    /\ run.warning /\ run.status = "stopped"
    /\ main_mode = "Agentic Task / Goal"
    /\ role = "Translator"
    /\ messages # <<>>

\* C3 (as stated): a Turn or an AgentRun is appended only by a run that made a
\* gateway call that returned; a submission with no successful gateway call
\* leaves the store as it was, a Document QA or Resume Review submission whose
\* tool short-circuits on blank text included.
C3_AppendOnlyAfterGatewaySuccess ==
    [][(~run'.cleared /\ ~StoreUnchanged)
         => (run'.gateway_calls >= 1 /\ run'.status = "done")]_vars

\* the tool of the last run returned its fixed message without calling the gateway
ShortCircuited ==
    /\ run.branch = "chat"
    /\ run.gateway_calls = 0
    /\ \/ /\ role = "Document QA"
          /\ IsBlank(DocContext)
          /\ run.reply = NoDocumentText
       \/ /\ role = "Resume Review"
          /\ IsBlank(IF DocContext = <<>> THEN run.user_input ELSE DocContext)
          /\ run.reply = NoResumeText

\* C3 (amended): the store changes, other than by Clear, only in a run that
\* read an input with a credential present and whose one tool returned without
\* raising: after exactly one gateway call that returned, or, in Chat mode with
\* role Document QA or Resume Review and blank text, after no gateway call,
\* the Turn then carrying the tool's fixed message.
C3_AppendOnlyAfterToolReturns ==
    [][(~run'.cleared /\ ~StoreUnchanged)
         => /\ Submitted /\ Truthy(api_key')
            /\ run'.status = "done"
            /\ Len(run'.tools) = 1
            /\ messages' = Append(messages, [user |-> run'.user_input,
                                             assistant |-> run'.reply])
            /\ (run'.gateway_calls = 1 \/ ShortCircuited')]_vars

C3_Witness ==
    /\ ShortCircuited
    /\ role = "Document QA"
    /\ Len(messages) = run.turns_before + 1
    /\ Last(messages).assistant = NoDocumentText

\* the tool the role designates
DesignatedTool(r) ==
    CASE r = "General Assistant" -> "tool_general_chat"
      [] r = "Coding Help" -> "tool_coding_help"
      [] r = "Resume Review" -> "tool_resume_review"
      [] r = "Emotional Support" -> "tool_emotional_support"
      [] r = "Document QA" -> "tool_document_qa"
      [] r = "Translator" -> "tool_translate"
      [] OTHER -> "tool_general_chat"

\* role values the selectbox does not offer
UnknownRoles == {"", "Teacher", "general assistant", "Translate"}

\* C4: in Chat mode every dispatched input calls exactly one tool, the one
\* designated for the role; a role value outside the six is routed to
\* tool_general_chat and raises nothing of its own.
C4_RoleRouting ==
    /\ run.branch = "chat" => run.tools = <<DesignatedTool(role)>>
    /\ \A r \in UnknownRoles, u \in UserInputs, gw \in GatewayOutcomes, l \in Languages :
          LET call == chat_route(gw, r, u, l, DocContext, messages)
          IN  /\ call.tool = "tool_general_chat"
              /\ call.r = tool_general_chat(gw, u, l, r, messages)
              /\ call.r.raised = ~gw.ok

C4_Witness ==
    /\ run.branch = "chat"
    /\ role = "Translator"
    /\ run.tools = <<"tool_translate">>
    /\ run.status = "done"
    /\ Last(messages) = [user |-> run.user_input, assistant |-> run.reply]

\* C5: tool_document_qa with a blank document context returns the fixed
\* no-document message and makes no gateway call, whatever the question and the
\* language; with a non-blank document context it makes exactly one gateway call.
C5_DocumentQaShortCircuit ==
    run.tools = <<"tool_document_qa">> =>
        IF IsBlank(DocContext)
        THEN /\ run.gateway_calls = 0
             /\ run.reply = NoDocumentText
             /\ run.status = "done"
        ELSE run.gateway_calls = 1

C5_Witness ==
    /\ run.tools = <<"tool_document_qa">>
    /\ DocContext # <<>> /\ IsBlank(DocContext)
    /\ run.gateway_calls = 0
    /\ run.reply = NoDocumentText

\* the positions of a marker in a text, and the n-th of a set of positions
Marks(text, m) == {i \in 1..Len(text) : text[i] = m}
Nth(S, n) == CHOOSE x \in S : Cardinality({y \in S : y < x}) = n - 1

\* a rendered history: the header line, then per Turn a "User: " line and an
\* "Assistant: " line, each ended by a newline
WellRendered(text) ==
    LET U == Marks(text, "User: ")
        A == Marks(text, "Assistant: ")
        n == Cardinality(U)
    IN  /\ Len(text) > 3
        /\ SubSeq(text, 1, 3) = <<"\n", "Previous conversation:", "\n">>
        /\ Cardinality(A) = n
        /\ n > 0 => Nth(U, 1) = 4
        /\ text[Len(text)] = "\n"
        /\ \A k \in 1..n : /\ Nth(U, k) < Nth(A, k)
                           /\ text[Nth(A, k) - 1] = "\n"
                           /\ k < n => /\ Nth(A, k) < Nth(U, k + 1)
                                       /\ text[Nth(U, k + 1) - 1] = "\n"

\* the Turns a rendered history shows, in its order
RenderedTurns(text) ==
    LET U == Marks(text, "User: ")
        A == Marks(text, "Assistant: ")
        n == Cardinality(U)
    IN  [k \in 1..n |->
            [user |-> SubSeq(text, Nth(U, k) + 1, Nth(A, k) - 2),
             assistant |-> SubSeq(text, Nth(A, k) + 1,
                                  (IF k < n THEN Nth(U, k + 1) ELSE Len(text) + 1) - 2)]]

\* the Turns that were in the store when the last run began
PriorTurns == SubSeq(messages, 1, run.turns_before)

\* C6: in Agentic Task / Goal mode with N prior Turns the history section of
\* the prompt shows exactly the last min(N, 6) Turns, in their order, each as
\* a User line followed by an Assistant line; with N = 0 it is empty.
C6_HistoryWindow ==
    (run.branch = "agentic" /\ ~run.cleared) =>
        LET N == Len(PriorTurns)
            shown == IF N < 6 THEN N ELSE 6
        IN  IF N = 0 THEN run.history_text = <<>>
            ELSE /\ WellRendered(run.history_text)
                 /\ RenderedTurns(run.history_text)
                      = SubSeq(PriorTurns, N - shown + 1, N)

C6_Witness ==
    /\ run.branch = "agentic"
    /\ run.status = "done"
    /\ Len(PriorTurns) = 7
    /\ PriorTurns[1] # PriorTurns[2]
    /\ Len(RenderedTurns(run.history_text)) = 6
    /\ RenderedTurns(run.history_text)[1] = PriorTurns[2]

\* C7: whenever the Clear Chat handler runs, whatever the store held, messages
\* and agent_runs are both empty afterwards; clearing a cleared store changes
\* nothing.
C7_ClearEmptiesAndIsIdempotent ==
    /\ run.cleared => (messages = <<>> /\ agent_runs = <<>>)
    /\ LET st == [messages |-> messages, agent_runs |-> agent_runs]
       IN  /\ clear_chat(st) = [messages |-> <<>>, agent_runs |-> <<>>]
           /\ clear_chat(clear_chat(st)) = clear_chat(st)

C7_Witness ==
    /\ run.cleared
    /\ run.turns_before >= 2
    /\ messages = <<>> /\ agent_runs = <<>>

\* C8: every run of the script other than a Clear (a submission in any mode and
\* role, blocked, failed or not, an export, a widget change) leaves the Turns
\* it found as a prefix of the Turns it leaves: Turns are only appended.
C8_TurnsOnlyAppended ==
    [][~run'.cleared => IsPrefixOf(messages, messages')]_vars

C8_Witness ==
    /\ Len(messages) >= 2
    /\ messages[1] # messages[2]
    /\ run.turns_before = Len(messages) - 1
    /\ ~run.cleared

\* C10: the AgentRuns are as many as the Turns appended in agentic mode since
\* the last Clear, so never more than the Turns; a successful agentic submission
\* appends one Turn and one AgentRun whose agentic_explanation is that Turn's
\* assistant text; a Chat submission leaves agent_runs alone.
C10_AgentRunsFollowAgenticTurns ==
    /\ [](Len(agent_runs) = agentic_turns /\ Len(agent_runs) <= Len(messages))
    /\ [][/\ (run'.branch = "agentic" /\ run'.status = "done")
             => /\ Len(messages') = Len(messages) + 1
                /\ IsPrefixOf(messages, messages')
                /\ Len(agent_runs') = Len(agent_runs) + 1
                /\ IsPrefixOf(agent_runs, agent_runs')
                /\ Last(agent_runs').agentic_explanation = Last(messages').assistant
                /\ Last(messages').user = run'.user_input
          /\ run'.branch = "chat" => agent_runs' = agent_runs]_vars

C10_Witness ==
    /\ run.branch = "agentic" /\ run.status = "done"
    /\ agentic_turns = 1 /\ Len(messages) = 2
    /\ Last(agent_runs).agentic_explanation = Last(messages).assistant

\* C9 (as stated): extracting the uploaded files' text never raises: with any
\* uploaded files, a .pdf that PyPDF2 cannot read included, get_uploaded_text
\* returns a string and no run of the script ends in the extraction.
C9_ExtractionNeverRaises ==
    /\ ~get_uploaded_text(pypdf2, uploaded_files).raised
    /\ run.failed_at # "extraction"

=============================================================================
